---- MODULE Spec2Model ----
(***************************************************************************)
(* Dynamic resource interception layer of qiankun:                         *)
(*   packages/sandbox/src/patchers/dynamicAppend/common.ts                 *)
(*   packages/shared/src/assets-transpilers/script.ts                      *)
(* The shared document regions (head, body), the per-app containers, the   *)
(* prototype slots that patchHTMLDynamicAppendPrototypeFunctions replaces, *)
(* the per-app lifecycle counters and the script transform pipeline are    *)
(* modelled as one state machine.                                          *)
(***************************************************************************)
EXTENDS Integers, Sequences, FiniteSets, TLC

\* ------------------------------------------------------------------ bounds
\* Cap of every lifecycle counter (the code's counters are unbounded).
MaxCount == 2
\* Number of patchHTMLDynamicAppendPrototypeFunctions calls explored.
MaxInstalls == 3
\* Length cap of an app's dynamicStyleSheetElements.
MaxRegistry == 2
\* Number of script fetches started.
MaxFetch == 2
\* Number of install calls explored together with the document operations.
DomInstalls == 1
\* Number of times the text of one inline script is wrapped.
MaxWraps == 2
\* Number of rules the app injects into one sheet.
MaxRules == 2
\* Length cap of the rule list of one sheet.
MaxSheetLen == 4
\* Number of CSSStyleSheet objects created.
MaxSheets == 2

\* ------------------------------------------------------------- vocabulary
Apps == {"A", "B"}
Phases == {"bootstrapping", "mounting"}
CalcTypes == {"increase", "decrease"}

VARIABLES
  appsCounterMap,   \* common.ts:66   app name -> the two patch counters (tracked apps only)
  expected,         \* ghost: the clamped count of every (app, phase), kept by the call history
  proto,            \* HTMLHeadElement.prototype / HTMLBodyElement.prototype method slots
  installs,         \* closures of the install calls made so far (the raw* constants of each)
  sinceUnpatch,     \* ghost: install calls made since the last unpatch call (or the start)
  children,         \* element -> ordered child nodes
  attached,         \* app -> its container is part of the live document
  registry,         \* app -> SandboxConfig.dynamicStyleSheetElements
  target,           \* node -> node[styleElementTargetSymbol]
  srcAttr,          \* script node -> its src attribute
  dataSrc,          \* script node -> dataset.src
  text,             \* script node -> textContent
  pending,          \* fetches started and not yet settled
  blobs,            \* object URLs created so far: index -> the wrapped code behind it
  installed,        \* ghost: script node -> number of times wrapped code was set as its src
  sheets,           \* CSSStyleSheet objects created so far: id -> its live cssRules list
  sheet,            \* style node -> id of styleElement.sheet (0: null, the node is detached)
  styledComponentCSSRulesMap,  \* common.ts:94  style node -> id of the sheet whose cssRules
                    \* list is stored for it (0: no entry)
  rebuild,          \* position of the rebuildCSSRules call in progress
  appRules,         \* ghost: ids of the sheets the app injected a rule into
  last              \* ghost: the last call made, its arguments and its outcome

vars == <<appsCounterMap, expected, proto, installs, sinceUnpatch, children, attached, registry,
          target, srcAttr, dataSrc, text, pending, blobs, installed, sheets, sheet,
          styledComponentCSSRulesMap, rebuild, appRules, last>>

patchVars == <<proto, installs, sinceUnpatch>>

\* What a call on a shared region may write.
docVars == <<children, registry, target, srcAttr, dataSrc, text, pending>>

domVars == <<patchVars, docVars, attached, blobs, installed>>

counterVars == <<appsCounterMap, expected>>

cssVars == <<sheets, sheet, styledComponentCSSRulesMap, rebuild, appRules>>

\* ------------------------------------------------------------ app counters
\* const appCount = appsCounterMap.get(appName) || { 0, 0 }
getAppCount(map, appName) ==
  IF appName \in DOMAIN map THEN map[appName]
  ELSE [bootstrapping |-> 0, mounting |-> 0]

\* A calcAppCount whose decrease does not test the counter.
calcAppCountNoFloor(map, appName, calcType, status) ==
  LET appCount == getAppCount(map, appName)
      next == IF calcType = "increase" THEN [appCount EXCEPT ![status] = @ + 1]
              ELSE [appCount EXCEPT ![status] = @ - 1]
  IN [a \in DOMAIN map \cup {appName} |-> IF a = appName THEN next ELSE map[a]]

\* calcAppCount(appName, calcType, status): the map after the call.
calcAppCount(map, appName, calcType, status) ==
  LET appCount == getAppCount(map, appName)
      next == IF calcType = "increase" THEN [appCount EXCEPT ![status] = @ + 1]
              ELSE IF appCount[status] > 0 THEN [appCount EXCEPT ![status] = @ - 1]
              ELSE appCount
  IN [a \in DOMAIN map \cup {appName} |-> IF a = appName THEN next ELSE map[a]]

\* An isAllAppsUnmounted that looks at the mounting counter only.
isAllAppsUnmountedMountingOnly(map) ==
  \A a \in DOMAIN map : map[a].mounting = 0

\* isAllAppsUnmounted(): every entry has both counters at 0.
isAllAppsUnmounted(map) ==
  \A a \in DOMAIN map : map[a].bootstrapping = 0 /\ map[a].mounting = 0

\* ------------------------------------------------------------------- nodes
\* The nodes micro-apps and the main app create.  Each has a fixed tag and a
\* fixed owner; "main" is code that does not belong to a micro-app.
StyleNodes == {"st", "lk"}
\* A style node of app B.
OtherStyleNodes == {"sb"}
PlainNodes == {"dv", "ms"}
\* Scripts with a src attribute and no declared type.
ExternalScripts == {"sx", "sn"}
\* Further scripts of app A: "si" inline of type module, "sj" inline of type
\* application/json, "sd" of type application/json with a src attribute.
TypedScripts == {"si", "sj", "sd"}
ScriptNodes == ExternalScripts \cup TypedScripts
Nodes == StyleNodes \cup OtherStyleNodes \cup PlainNodes \cup ScriptNodes
null == "null"

SCRIPT_TAG_NAME == "SCRIPT"
LINK_TAG_NAME == "LINK"
STYLE_TAG_NAME == "STYLE"

Tag(n) ==
  CASE n = "st" -> "STYLE"
    [] n = "lk" -> "LINK"
    [] n = "ms" -> "STYLE"
    [] n = "sb" -> "STYLE"
    [] n = "dv" -> "DIV"
    [] n \in ScriptNodes -> "SCRIPT"

Owner(n) ==
  CASE n = "st" -> "A"
    [] n = "lk" -> "A"
    [] n = "ms" -> "main"
    [] n = "dv" -> "A"
    [] n = "sx" -> "A"
    [] n = "sn" -> "B"
    [] n = "sb" -> "B"
    [] n \in TypedScripts -> "A"

\* The attribution oracle handed to the install function.
isInvokedByMicroApp(n) == Owner(n) \in Apps

\* A getContainer() that hands every app the same element.
ContainerShared(a) == "cA"

\* SandboxConfig.getContainer() of the owning app.
Container(a) == IF a = "A" THEN "cA" ELSE "cB"

\* SandboxConfig.sandbox: app B runs without one.
HasSandbox(a) == a = "A"

Regions == {"head", "body"}

\* An element app A renders into its container; it can hold nodes and is itself a child
\* node of the element it is appended to.
Wrappers == {"wA"}

Elements == Regions \cup {Container(a) : a \in Apps} \cup Wrappers

\* isHijackingTag(tagName)
isHijackingTag(tagName) ==
  tagName = LINK_TAG_NAME \/ tagName = STYLE_TAG_NAME \/ tagName = SCRIPT_TAG_NAME

\* -------------------------------------------------------------- DOM basics
Has(seq, x) == \E i \in 1..Len(seq) : seq[i] = x

\* Array.prototype.indexOf, 1-based; 0 when absent.
IndexOf(seq, x) ==
  IF Has(seq, x) THEN CHOOSE i \in 1..Len(seq) : seq[i] = x /\ \A j \in 1..(i - 1) : seq[j] # x
  ELSE 0

Without(seq, x) == SelectSeq(seq, LAMBDA y : y # x)

\* Array.prototype.splice(index, 1)
Splice(seq, i) == SubSeq(seq, 1, i - 1) \o SubSeq(seq, i + 1, Len(seq))

InsertAt(seq, i, x) == SubSeq(seq, 1, i - 1) \o <<x>> \o SubSeq(seq, i, Len(seq))

\* node.parentNode
ParentOf(ch, n) ==
  IF \E e \in Elements : Has(ch[e], n) THEN CHOOSE e \in Elements : Has(ch[e], n) ELSE "none"

\* container.contains(x): x is a child of the container or of an element inside the
\* container; contains(null) is false.
Contains(ch, container, x) ==
  /\ x # null
  /\ \/ Has(ch[container], x)
     \/ \E w \in Wrappers : Has(ch[container], w) /\ Has(ch[w], x)

Detach(ch, n) == [e \in Elements |-> Without(ch[e], n)]

\* Node.prototype.appendChild: the node leaves its parent and becomes the last child.
NativeAppendChild(ch, parent, n) ==
  [Detach(ch, n) EXCEPT ![parent] = Append(@, n)]

\* Node.prototype.insertBefore raises NotFoundError for a reference that is not a child.
InsertBeforeThrows(ch, parent, ref) == ref # null /\ ~Has(ch[parent], ref)

NativeInsertBefore(ch, parent, n, ref) ==
  IF ref = null THEN NativeAppendChild(ch, parent, n)
  ELSE IF ref = n THEN ch
  ELSE LET d == Detach(ch, n)
       IN [d EXCEPT ![parent] = InsertAt(@, IndexOf(@, ref), n)]

\* Node.prototype.removeChild raises NotFoundError for a node that is not a child.
RemoveChildThrows(ch, parent, n) == parent = "none" \/ ~Has(ch[parent], n)

NativeRemoveChild(ch, parent, n) == Detach(ch, n)

\* The node is part of the live document.
InDocument(ch, att, n) ==
  LET top(x) == \/ Has(ch["head"], x) \/ Has(ch["body"], x)
                \/ \E a \in Apps : att[a] /\ Has(ch[Container(a)], x)
  IN top(n) \/ \E w \in Wrappers : Has(ch[w], n) /\ top(w)

\* ------------------------------------------------------------ URLs and code
NoURL == [kind |-> "none", name |-> "", n |-> 0]
RelURL(name) == [kind |-> "rel", name |-> name, n |-> 0]
AbsURL(name) == [kind |-> "abs", name |-> name, n |-> 0]
BlobURL(i) == [kind |-> "blob", name |-> "", n |-> i]

\* location.href, the base URI the interceptor hands to the pipeline.
baseURI == AbsURL("page")

\* getEntireUrl(uri, baseURI): a relative reference becomes absolute, an absolute one
\* (a blob: URL included) is returned as it is.
getEntireUrl(uri, base) == IF uri.kind = "rel" THEN AbsURL(uri.name) ELSE uri

NoCode == [origin |-> "", wraps |-> <<>>]
RawCode(name) == [origin |-> name, wraps |-> <<>>]

\* sandbox.makeEvaluateFactory(code, url): the code wrapped once more, for that url.
makeEvaluateFactory(code, url) == [code EXCEPT !.wraps = Append(@, url)]

\* script.type of each script node ("" when none is declared).
ScriptType(n) ==
  CASE n = "si" -> "module"
    [] n \in {"sj", "sd"} -> "application/json"
    [] OTHER -> ""

\* isValidJavaScriptType(type)
isValidJavaScriptType(type) ==
  type = "" \/ type \in {"text/javascript", "module", "application/javascript",
                         "text/ecmascript", "application/ecmascript"}

\* ------------------------------------------------- script transform pipeline
\* The part of the state one call reads and writes, with what the call has done so
\* far: how often the attribution oracle was asked, whether the call has raised, and
\* the value it returns.
CallState ==
  [children |-> children, registry |-> registry, target |-> target, srcAttr |-> srcAttr,
   dataSrc |-> dataSrc, text |-> text, pending |-> pending,
   oracle |-> 0, threw |-> FALSE, ret |-> null]

\* A transpileScript that leaves the src attribute on the node while it fetches.
transpileScriptKeepSrc(st, script, base, app) ==
  LET srcAttribute == st.srcAttr[script]
  IN IF HasSandbox(app) /\ srcAttribute # NoURL
     THEN LET scriptSrc == getEntireUrl(srcAttribute, base)
          IN [st EXCEPT !.dataSrc[script] = scriptSrc,
                        !.pending = @ \cup {[node |-> script, url |-> scriptSrc]}]
     ELSE st

\* transpileScript(script, baseURI, { fetch, sandbox }); app is the owner whose sandbox
\* (if it has one) is passed.
transpileScript(st, script, base, app) ==
  LET srcAttribute == st.srcAttr[script]
  IN IF HasSandbox(app)
     THEN IF srcAttribute # NoURL
          THEN LET scriptSrc == getEntireUrl(srcAttribute, base)
               IN [st EXCEPT !.srcAttr[script] = NoURL,
                             !.dataSrc[script] = scriptSrc,
                             !.pending = @ \cup {[node |-> script, url |-> scriptSrc]}]
          ELSE IF isValidJavaScriptType(ScriptType(script)) /\ st.text[script] # NoCode
               THEN [st EXCEPT !.text[script] = makeEvaluateFactory(@, base)]
               ELSE st
     ELSE IF srcAttribute # NoURL
          THEN [st EXCEPT !.srcAttr[script] = getEntireUrl(srcAttribute, base)]
          ELSE st

\* transpileAssets(node, baseURI, opts) of @qiankunjs/shared: dispatches a script node
\* to transpileScript and returns the node.
transpileAssets(st, node, base, app) ==
  IF Tag(node) = SCRIPT_TAG_NAME THEN transpileScript(st, node, base, app) ELSE st

\* ---------------------------------------------------------- function values
\* A function value held by a prototype slot or captured by an install call: a native
\* DOM method, or a wrapper made by install call `inst` for slot `name`.
Native(method) == [kind |-> "native", inst |-> 0, name |-> method]
Wrapper(k, slot) == [kind |-> "wrapper", inst |-> k, name |-> slot]

\* fn[overwrittenSymbol] === true (set on every wrapper, lines 178 and 235)
overwritten(f) == f.kind = "wrapper"

InsertSlots == {"headAppendChild", "bodyAppendChild", "headInsertBefore"}
RemoveSlots == {"headRemoveChild", "bodyRemoveChild"}
Slots == InsertSlots \cup RemoveSlots \cup {"bodyInsertBefore"}

\* Every wrapper created with target 'head'.
SlotTargetAllHead(slot) == "head"

\* The `target` option each wrapper is created with.
SlotTarget(slot) == IF slot \in {"bodyAppendChild", "bodyRemoveChild"} THEN "body" ELSE "head"

\* The prototype slot a call region.method(...) resolves to.
SlotOf(region, method) ==
  CASE region = "head" /\ method = "appendChild" -> "headAppendChild"
    [] region = "head" /\ method = "insertBefore" -> "headInsertBefore"
    [] region = "head" /\ method = "removeChild" -> "headRemoveChild"
    [] region = "body" /\ method = "appendChild" -> "bodyAppendChild"
    [] region = "body" /\ method = "insertBefore" -> "bodyInsertBefore"
    [] region = "body" /\ method = "removeChild" -> "bodyRemoveChild"

\* The raw function a wrapper closes over: the constant its install call captured.
RawOf(f) == installs[f.inst][f.name]

\* ------------------------------------------------------------------ insert
RECURSIVE CallInsert(_, _, _, _, _)

\* A wrapper that does not look at the tag: every element of a micro-app that is not a
\* script is handled as a style.
appendChildOrInsertBeforeAnyTag(f, this, element, refChild, st) ==
  LET rawDOMAppendOrInsertBefore == RawOf(f)
      asked == [st EXCEPT !.oracle = @ + 1]
      app == Owner(element)
      mountDOM == Container(app)
      referenceNode == IF Contains(st.children, mountDOM, refChild) THEN refChild ELSE null
  IN IF ~isInvokedByMicroApp(element)
     THEN CallInsert(rawDOMAppendOrInsertBefore, this, element, refChild, asked)
     ELSE IF Tag(element) = SCRIPT_TAG_NAME
     THEN CallInsert(rawDOMAppendOrInsertBefore, mountDOM, element, referenceNode,
                     transpileAssets(asked, element, baseURI, app))
     ELSE CallInsert(rawDOMAppendOrInsertBefore, mountDOM, element, referenceNode,
                     [asked EXCEPT !.target[element] = SlotTarget(f.name),
                                   !.registry[app] = Append(@, element)])

\* appendChildOrInsertBefore.call(this, newChild, refChild) of wrapper f (lines 124-176)
appendChildOrInsertBefore(f, this, element, refChild, st) ==
  LET rawDOMAppendOrInsertBefore == RawOf(f)
      asked == [st EXCEPT !.oracle = @ + 1]
      app == Owner(element)
      mountDOM == Container(app)
      referenceNode == IF Contains(st.children, mountDOM, refChild) THEN refChild ELSE null
  IN IF ~isHijackingTag(Tag(element))
     THEN CallInsert(rawDOMAppendOrInsertBefore, this, element, refChild, st)
     ELSE IF ~isInvokedByMicroApp(element)
     THEN CallInsert(rawDOMAppendOrInsertBefore, this, element, refChild, asked)
     ELSE IF Tag(element) \in {LINK_TAG_NAME, STYLE_TAG_NAME}
     THEN CallInsert(rawDOMAppendOrInsertBefore, mountDOM, element, referenceNode,
                     [asked EXCEPT !.target[element] = SlotTarget(f.name),
                                   !.registry[app] = Append(@, element)])
     ELSE IF Tag(element) = SCRIPT_TAG_NAME
     THEN CallInsert(rawDOMAppendOrInsertBefore, mountDOM, element, referenceNode,
                     transpileAssets(asked, element, baseURI, app))
     ELSE CallInsert(rawDOMAppendOrInsertBefore, this, element, refChild, asked)

\* f.call(this, element, refChild) for the function value f of an insert slot.
CallInsert(f, this, element, refChild, st) ==
  IF st.threw THEN st
  ELSE IF f.kind = "wrapper" THEN appendChildOrInsertBefore(f, this, element, refChild, st)
  ELSE IF f.name = "appendChild"
  THEN [st EXCEPT !.children = NativeAppendChild(@, this, element), !.ret = element]
  ELSE IF InsertBeforeThrows(st.children, this, refChild)
  THEN [st EXCEPT !.threw = TRUE]
  ELSE [st EXCEPT !.children = NativeInsertBefore(@, this, element, refChild), !.ret = element]

\* ------------------------------------------------------------------ remove
Faults == {"none", "oracle", "config", "container"}

RECURSIVE CallRemove(_, _, _, _, _)

\* removeChild.call(this, child) of wrapper f (lines 189-233).  fault names the
\* collaborator that raises during this call, if any.
removeChild(f, this, child, fault, st) ==
  LET rawRemoveChild == RawOf(f)
      asked == [st EXCEPT !.oracle = @ + 1]
      app == Owner(child)
      attachedElement == child
      dynamicElementIndex == IndexOf(asked.registry[app], attachedElement)
      spliced == IF Tag(child) \in {STYLE_TAG_NAME, LINK_TAG_NAME} /\ dynamicElementIndex # 0
                 THEN [asked EXCEPT !.registry[app] = Splice(@, dynamicElementIndex)]
                 ELSE asked
      container == Container(app)
      inner == CallRemove(rawRemoveChild, ParentOf(spliced.children, attachedElement),
                          attachedElement, fault, spliced)
      fallback(s) == CallRemove(rawRemoveChild, this, child, fault, [s EXCEPT !.threw = FALSE])
  IN IF ~isHijackingTag(Tag(child))
     THEN CallRemove(rawRemoveChild, this, child, fault, st)
     ELSE IF fault = "oracle" THEN [asked EXCEPT !.threw = TRUE]
     ELSE IF ~isInvokedByMicroApp(child)
     THEN CallRemove(rawRemoveChild, this, child, fault, asked)
     ELSE IF fault = "config" THEN fallback(asked)
     ELSE IF fault = "container" THEN fallback(spliced)
     ELSE IF Contains(spliced.children, container, attachedElement)
     THEN IF inner.threw THEN fallback(inner) ELSE inner
     ELSE fallback(spliced)

\* f.call(this, child) for the function value f of a remove slot.
CallRemove(f, this, child, fault, st) ==
  IF st.threw THEN st
  ELSE IF f.kind = "wrapper" THEN removeChild(f, this, child, fault, st)
  ELSE IF RemoveChildThrows(st.children, this, child)
  THEN [st EXCEPT !.threw = TRUE]
  ELSE [st EXCEPT !.children = NativeRemoveChild(@, this, child), !.ret = child]

\* ------------------------------------------------------------ install, unpatch
NativeMethod(slot) ==
  CASE slot \in {"headAppendChild", "bodyAppendChild"} -> "appendChild"
    [] slot \in {"headInsertBefore", "bodyInsertBefore"} -> "insertBefore"
    [] slot \in RemoveSlots -> "removeChild"

\* An install guard that does not look at the marker.
insertNotOverwrittenAlways(p) == TRUE

\* Lines 248-252: none of the three insert functions is marked as overwritten.
insertNotOverwritten(p) ==
  /\ ~overwritten(p["headAppendChild"])
  /\ ~overwritten(p["bodyAppendChild"])
  /\ ~overwritten(p["headInsertBefore"])

\* Line 277: none of the two remove functions is marked as overwritten.
removeNotOverwritten(p) ==
  /\ ~overwritten(p["headRemoveChild"])
  /\ ~overwritten(p["bodyRemoveChild"])

\* The raw* constants install call k captures (lines 243-245, 274-275).
capturedRaw(p) == [slot \in InsertSlots \cup RemoveSlots |-> p[slot]]

\* The prototype slots after install call k (lines 253-271, 278-289).
patchedProto(p, k) ==
  [slot \in Slots |->
     IF slot \in InsertSlots /\ insertNotOverwritten(p) THEN Wrapper(k, slot)
     ELSE IF slot \in RemoveSlots /\ removeNotOverwritten(p) THEN Wrapper(k, slot)
     ELSE p[slot]]

\* unpatch() of an install call whose captured constants are raw (lines 292-299).
unpatchedProto(p, raw) ==
  [slot \in Slots |-> IF slot \in InsertSlots \cup RemoveSlots THEN raw[slot] ELSE p[slot]]

\* ------------------------------------------------------------- style sheets
\* Style elements whose sheets are followed: "sc" is rule-only (no text, its rules are
\* injected through the CSSOM), "tx" carries its rules as text.
SheetNodes == {"sc", "tx"}

\* styleElement.textContent
StyleText(n) == IF n = "tx" THEN "t1{}" ELSE ""

\* The rule texts the app hands to insertRule.
RuleTexts == {"r1 {}", "r2 {}"}

\* Parsing a rule text gives the rule; cssRule.cssText is its serialisation.
ParseRule(ruleText) ==
  CASE ruleText \in {"r1 {}", "r1 { }"} -> "r1"
    [] ruleText \in {"r2 {}", "r2 { }"} -> "r2"
    [] ruleText = "t1{}" -> "t1"
cssText(rule) ==
  CASE rule = "r1" -> "r1 { }"
    [] rule = "r2" -> "r2 { }"
    [] rule = "t1" -> "t1 { }"

\* The rule list of the sheet the browser creates for a style element that becomes
\* connected: the rules of its text.
FreshSheet(n) == IF StyleText(n) = "" THEN <<>> ELSE <<ParseRule(StyleText(n))>>

\* An index at the front of the list.
replayIndexFront(rules) == 0

\* The index rebuildCSSRules inserts at: cssStyleSheetElement.cssRules.length (line 322).
replayIndex(rules) == Len(rules)

\* CSSStyleSheet.insertRule(ruleText, index), index 0-based.
insertRule(rules, ruleText, index) == InsertAt(rules, index + 1, ParseRule(ruleText))

\* getStyledElementCSSRules(element)?.length, 0 when there is no entry.
getStyledElementCSSRulesLength(ss, map, n) == IF map[n] = 0 THEN 0 ELSE Len(ss[map[n]])

\* isStyledComponentsLike(element)
isStyledComponentsLike(ss, sh, map, n) ==
  /\ StyleText(n) = ""
  /\ \/ sh[n] # 0 /\ Len(ss[sh[n]]) > 0
     \/ getStyledElementCSSRulesLength(ss, map, n) > 0

\* No rebuildCSSRules call is in progress.
NoRebuild == [stage |-> "idle", list |-> <<>>, k |-> 0, i |-> 0, fresh |-> FALSE]

SheetLists == {<<"sc">>, <<"tx">>, <<"tx", "sc">>}

\* ------------------------------------------------------------------- state
NoCall ==
  [op |-> "init", region |-> "", method |-> "", node |-> null, ref |-> null,
   fault |-> "none", ret |-> null, threw |-> FALSE, oracle |-> 0, k |-> 0,
   app |-> "", calcType |-> "", phase |-> "", before |-> 0, inDoc |-> FALSE,
   wasChild |-> FALSE, url |-> NoURL]

InitialSrc(n) ==
  CASE n = "sx" -> RelURL("a.js")
    [] n = "sn" -> RelURL("b.js")
    [] n = "sd" -> RelURL("d.json")
    [] OTHER -> NoURL

\* The text content each script node is created with.
InitialText(n) == IF n \in {"si", "sj"} THEN RawCode(n) ELSE NoCode

Init ==
  /\ appsCounterMap = <<>>
  /\ expected = [a \in Apps |-> [p \in Phases |-> 0]]
  /\ proto = [slot \in Slots |-> Native(NativeMethod(slot))]
  /\ installs = <<>>
  /\ sinceUnpatch = 0
  /\ children = [e \in Elements |-> <<>>]
  /\ attached = [a \in Apps |-> TRUE]
  /\ registry = [a \in Apps |-> <<>>]
  /\ target = [n \in Nodes |-> "none"]
  /\ srcAttr = [n \in ScriptNodes |-> InitialSrc(n)]
  /\ dataSrc = [n \in ScriptNodes |-> NoURL]
  /\ text = [n \in ScriptNodes |-> InitialText(n)]
  /\ pending = {}
  /\ blobs = <<>>
  /\ installed = [n \in ScriptNodes |-> 0]
  /\ sheets = <<>>
  /\ sheet = [n \in SheetNodes |-> 0]
  /\ styledComponentCSSRulesMap = [n \in SheetNodes |-> 0]
  /\ rebuild = NoRebuild
  /\ appRules = {}
  /\ last = NoCall

\* ------------------------------------------------------------------ actions
\* calcAppCount(appName, calcType, status)
CalcAppCount(appName, calcType, status) ==
  /\ calcType = "increase" => expected[appName][status] < MaxCount
  /\ appsCounterMap' = calcAppCount(appsCounterMap, appName, calcType, status)
  /\ expected' = [expected EXCEPT ![appName][status] =
                    IF calcType = "increase" THEN @ + 1 ELSE IF @ = 0 THEN 0 ELSE @ - 1]
  /\ last' = [NoCall EXCEPT !.op = "calc", !.app = appName, !.calcType = calcType,
                            !.phase = status,
                            !.before = getAppCount(appsCounterMap, appName)[status]]
  /\ UNCHANGED <<domVars, cssVars>>

\* calcAppCount(appName, calcType, status) as an app's lifecycle calls it: the counter
\* of a phase is increased when the app enters the phase, which it does not do again
\* while it is in it.
CalcAppCountLifecycle(appName, calcType, status) ==
  /\ calcType = "increase" => getAppCount(appsCounterMap, appName)[status] = 0
  /\ CalcAppCount(appName, calcType, status)

\* unpatch = patchHTMLDynamicAppendPrototypeFunctions(isInvokedByMicroApp, getSandboxConfig)
Patch(maxInstalls) ==
  /\ Len(installs) < maxInstalls
  /\ proto' = patchedProto(proto, Len(installs) + 1)
  /\ installs' = Append(installs, capturedRaw(proto))
  /\ sinceUnpatch' = sinceUnpatch + 1
  /\ last' = [NoCall EXCEPT !.op = "patch", !.k = Len(installs) + 1]
  /\ UNCHANGED <<docVars, attached, blobs, installed, counterVars, cssVars>>

\* The unpatch function returned by install call k.
Unpatch(k) ==
  /\ k \in 1..Len(installs)
  /\ proto' = unpatchedProto(proto, installs[k])
  /\ sinceUnpatch' = 0
  /\ last' = [NoCall EXCEPT !.op = "unpatch", !.k = k]
  /\ UNCHANGED <<installs, docVars, attached, blobs, installed, counterVars, cssVars>>

\* The effect of a call on the state it may write.
Commit(st) ==
  /\ children' = st.children
  /\ registry' = st.registry
  /\ target' = st.target
  /\ srcAttr' = st.srcAttr
  /\ dataSrc' = st.dataSrc
  /\ text' = st.text
  /\ pending' = st.pending

\* region.appendChild(node) or region.insertBefore(node, ref), called by the owner of node.
Insert(region, method, node, ref) ==
  /\ method = "appendChild" => ref = null
  /\ Owner(node) \in Apps => Len(registry[Owner(node)]) < MaxRegistry
  /\ Tag(node) = SCRIPT_TAG_NAME => Cardinality(pending) + Len(blobs) < MaxFetch
  /\ Tag(node) = SCRIPT_TAG_NAME => Len(text[node].wraps) < MaxWraps
  /\ LET st == CallInsert(proto[SlotOf(region, method)], region, node, ref, CallState)
     IN /\ Commit(st)
        /\ last' = [NoCall EXCEPT !.op = "insert", !.region = region, !.method = method,
                                  !.node = node, !.ref = ref, !.ret = st.ret,
                                  !.threw = st.threw, !.oracle = st.oracle,
                                  !.wasChild = Has(children[region], node)]
  /\ UNCHANGED <<patchVars, attached, blobs, installed, counterVars, cssVars>>

\* An external script is inserted for the first time, with the src it was created with.
InsertFirst(region, method, node) ==
  /\ srcAttr[node] = InitialSrc(node)
  /\ Insert(region, method, node, null)

\* region.removeChild(node), called by the owner of node.
Remove(region, node, fault) ==
  /\ fault # "none" =>
       /\ overwritten(proto[SlotOf(region, "removeChild")])
       /\ isHijackingTag(Tag(node))
       /\ fault = "oracle" \/ isInvokedByMicroApp(node)
  /\ LET st == CallRemove(proto[SlotOf(region, "removeChild")], region, node, fault, CallState)
     IN /\ Commit(st)
        /\ last' = [NoCall EXCEPT !.op = "remove", !.region = region,
                                  !.method = "removeChild", !.node = node, !.fault = fault,
                                  !.ret = st.ret, !.threw = st.threw, !.oracle = st.oracle,
                                  !.wasChild = Has(children[region], node)]
  /\ UNCHANGED <<patchVars, attached, blobs, installed, counterVars, cssVars>>

\* fetch(url) resolves to the text behind the url.
FetchText(url) == IF url.kind = "blob" THEN blobs[url.n] ELSE RawCode(url.name)

\* The two .then callbacks of transpileScript (lines 40-44) run for a pending fetch f.
FetchResolve ==
  \E f \in pending :
  /\ LET codeFactory == makeEvaluateFactory(FetchText(f.url), f.url)
     IN /\ blobs' = Append(blobs, codeFactory)
        /\ srcAttr' = [srcAttr EXCEPT ![f.node] = BlobURL(Len(blobs) + 1)]
  /\ installed' = [installed EXCEPT ![f.node] = @ + 1]
  /\ pending' = pending \ {f}
  /\ last' = [NoCall EXCEPT !.op = "resolve", !.node = f.node, !.url = f.url,
                            !.inDoc = InDocument(children, attached, f.node)]
  /\ UNCHANGED <<patchVars, children, attached, registry, target, dataSrc, text, counterVars, cssVars>>

\* A pending fetch rejects: neither callback runs.
FetchReject ==
  \E f \in pending :
  /\ pending' = pending \ {f}
  /\ last' = [NoCall EXCEPT !.op = "reject", !.node = f.node, !.url = f.url]
  /\ UNCHANGED <<patchVars, children, attached, registry, target, srcAttr, dataSrc, text,
                 blobs, installed, counterVars, cssVars>>

\* The orchestrator takes app a's container out of the document.
Unmount(a) ==
  /\ attached[a]
  /\ attached' = [attached EXCEPT ![a] = FALSE]
  /\ last' = [NoCall EXCEPT !.op = "unmount", !.app = a]
  /\ UNCHANGED <<patchVars, docVars, blobs, installed, counterVars, cssVars>>

\* The orchestrator mounts app a again: into the container it had, or (fresh) into a new
\* one, which getContainer() returns from then on and which holds none of the old nodes.
Mount(a, fresh) ==
  /\ ~attached[a]
  /\ attached' = [attached EXCEPT ![a] = TRUE]
  /\ children' = IF fresh THEN [children EXCEPT ![Container(a)] = <<>>] ELSE children
  /\ last' = [NoCall EXCEPT !.op = "mount", !.app = a]
  /\ UNCHANGED <<patchVars, registry, target, srcAttr, dataSrc, text, pending, blobs,
                 installed, counterVars, cssVars>>

\* App A calls appendChild on an element of its own (its container or the element it
\* rendered there): these are not head or body, so the call is the native one.
AppAppend(parent, n) ==
  /\ n # parent /\ ~(n \in Wrappers /\ parent \in Wrappers)
  /\ children' = NativeAppendChild(children, parent, n)
  /\ last' = [NoCall EXCEPT !.op = "app", !.region = parent, !.node = n]
  /\ UNCHANGED <<patchVars, attached, registry, target, srcAttr, dataSrc, text, pending, blobs,
                 installed, counterVars, cssVars>>

\* The browser connects style element n to the document and gives it a new sheet.
AttachStyle(n) ==
  /\ rebuild.stage = "idle"
  /\ sheet[n] = 0
  /\ Len(sheets) < MaxSheets
  /\ sheets' = Append(sheets, FreshSheet(n))
  /\ sheet' = [sheet EXCEPT ![n] = Len(sheets) + 1]
  /\ last' = [NoCall EXCEPT !.op = "attach", !.node = n]
  /\ UNCHANGED <<domVars, counterVars, styledComponentCSSRulesMap, rebuild, appRules>>

\* Style element n leaves the document: the browser discards its sheet.  A cssRules
\* list held elsewhere keeps its rules.
DetachStyle(n) ==
  /\ rebuild.stage = "idle"
  /\ sheet[n] # 0
  /\ sheet' = [sheet EXCEPT ![n] = 0]
  /\ last' = [NoCall EXCEPT !.op = "detach", !.node = n]
  /\ UNCHANGED <<domVars, counterVars, sheets, styledComponentCSSRulesMap, rebuild, appRules>>

\* The app injects a rule at the end of the sheet of its connected style element n.
InjectRule(n, ruleText) ==
  /\ rebuild.stage = "idle"
  /\ sheet[n] # 0
  /\ Len(sheets[sheet[n]]) < MaxRules
  /\ sheets' = [sheets EXCEPT ![sheet[n]] = insertRule(@, ruleText, Len(@))]
  /\ appRules' = appRules \cup {sheet[n]}
  /\ last' = [NoCall EXCEPT !.op = "inject", !.node = n]
  /\ UNCHANGED <<domVars, counterVars, sheet, styledComponentCSSRulesMap, rebuild>>

\* recordStyledComponentsCSSRules(styleElements)
RecordStyledComponentsCSSRules(styleElements) ==
  /\ rebuild.stage = "idle"
  /\ styledComponentCSSRulesMap' =
       [n \in SheetNodes |->
          IF /\ Has(styleElements, n)
             /\ isStyledComponentsLike(sheets, sheet, styledComponentCSSRulesMap, n)
             /\ sheet[n] # 0
          THEN sheet[n] ELSE styledComponentCSSRulesMap[n]]
  /\ last' = [NoCall EXCEPT !.op = "record"]
  /\ UNCHANGED <<domVars, counterVars, sheets, sheet, rebuild, appRules>>

\* rebuildCSSRules(styleSheetElements, reAppendElement) is called.
RebuildCSSRules(styleSheetElements) ==
  /\ rebuild.stage = "idle"
  /\ rebuild' = [NoRebuild EXCEPT !.stage = "append", !.list = styleSheetElements, !.k = 1]
  /\ last' = [NoCall EXCEPT !.op = "rebuild"]
  /\ UNCHANGED <<domVars, counterVars, sheets, sheet, styledComponentCSSRulesMap, appRules>>

\* The forEach of rebuildCSSRules moves to the next element, or the call returns.
NextElement(rb) ==
  IF rb.k + 1 > Len(rb.list) THEN NoRebuild
  ELSE [rb EXCEPT !.stage = "append", !.k = @ + 1, !.i = 0, !.fresh = FALSE]

\* Lines 308-316 for the current element: reAppendElement, supplied by the caller,
\* returns appendSuccess and (connects) has put the element into the document, which
\* gives a detached element a new sheet; then the tests that lead into the replay loop.
ReAppendElement(appendSuccess, connects) ==
  /\ rebuild.stage = "append"
  /\ connects => appendSuccess
  /\ LET stylesheetElement == rebuild.list[rebuild.k]
         created == connects /\ sheet[stylesheetElement] = 0
         ss == IF created THEN Append(sheets, FreshSheet(stylesheetElement)) ELSE sheets
         sh == IF created THEN [sheet EXCEPT ![stylesheetElement] = Len(sheets) + 1] ELSE sheet
         cssRules == styledComponentCSSRulesMap[stylesheetElement]
         enters == /\ appendSuccess
                   /\ isStyledComponentsLike(ss, sh, styledComponentCSSRulesMap, stylesheetElement)
                   /\ cssRules # 0
                   /\ 0 < Len(ss[cssRules])
     IN /\ created => Len(sheets) < MaxSheets
        /\ sheets' = ss
        /\ sheet' = sh
        /\ rebuild' =
             IF enters
             THEN [rebuild EXCEPT !.stage = "loop", !.i = 0,
                                  !.fresh = /\ sh[stylesheetElement] # 0
                                            /\ sh[stylesheetElement] # cssRules
                                            /\ ss[sh[stylesheetElement]] = <<>>]
             ELSE NextElement(rebuild)
        /\ last' = [NoCall EXCEPT !.op = IF rebuild'.stage = "idle" THEN "rebuilt" ELSE "reappend",
                                  !.node = stylesheetElement]
  /\ UNCHANGED <<domVars, counterVars, styledComponentCSSRulesMap, appRules>>

\* One iteration of the replay loop (lines 319-323) and its test i < cssRules.length.
\* insertRule on the null sheet of a detached element raises a TypeError.
ReplayRule ==
  /\ rebuild.stage = "loop"
  /\ LET stylesheetElement == rebuild.list[rebuild.k]
         cssRules == styledComponentCSSRulesMap[stylesheetElement]
         cssRule == sheets[cssRules][rebuild.i + 1]
         cssStyleSheetElement == sheet[stylesheetElement]
     IN IF cssStyleSheetElement = 0
        THEN /\ rebuild' = NoRebuild
             /\ sheets' = sheets
             /\ last' = [NoCall EXCEPT !.op = "rebuilt", !.node = stylesheetElement,
                                       !.threw = TRUE]
        ELSE /\ Len(sheets[cssStyleSheetElement]) < MaxSheetLen
             /\ sheets' = [sheets EXCEPT ![cssStyleSheetElement] =
                             insertRule(@, cssText(cssRule), replayIndex(@))]
             /\ rebuild' = IF rebuild.i + 1 < Len(sheets'[cssRules])
                           THEN [rebuild EXCEPT !.i = @ + 1]
                           ELSE NextElement(rebuild)
             /\ last' = [NoCall EXCEPT !.op = IF rebuild'.stage = "idle" THEN "rebuilt"
                                              ELSE "replay",
                                       !.node = stylesheetElement]
  /\ UNCHANGED <<domVars, counterVars, sheet, styledComponentCSSRulesMap, appRules>>

\* ----------------------------------------------------------- specifications
\* The lifecycle counters alone.
NextCounter ==
  \E a \in Apps, t \in CalcTypes, s \in Phases : CalcAppCount(a, t, s)

SpecCounter == Init /\ [][NextCounter]_vars

\* One install call and its unpatch, the style and link node of app A, and app A's
\* unmount / remount.
Next ==
  \/ Patch(DomInstalls)
  \/ \E k \in 1..DomInstalls : Unpatch(k)
  \/ \E r \in Regions, m \in {"appendChild", "insertBefore"}, n \in StyleNodes,
        ref \in StyleNodes \cup {null} : Insert(r, m, n, ref)
  \/ \E r \in Regions, n \in StyleNodes : Remove(r, n, "none")
  \/ Unmount("A")
  \/ \E fresh \in BOOLEAN : Mount("A", fresh)

Spec == Init /\ [][Next]_vars

\* One install call and its unpatch, one style node of app A, removes during which a
\* collaborator may raise, and app A's unmount / remount.
NextRemove ==
  \/ Patch(DomInstalls)
  \/ \E k \in 1..DomInstalls : Unpatch(k)
  \/ \E r \in Regions, m \in {"appendChild", "insertBefore"} : Insert(r, m, "st", null)
  \/ \E r \in Regions, fault \in Faults : Remove(r, "st", fault)
  \/ Unmount("A")
  \/ \E fresh \in BOOLEAN : Mount("A", fresh)

SpecRemove == Init /\ [][NextRemove]_vars

\* Repeated install calls and their unpatch functions, with one style node.
NextPatch ==
  \/ Patch(MaxInstalls)
  \/ \E k \in 1..MaxInstalls : Unpatch(k)
  \/ \E r \in Regions, m \in {"appendChild", "insertBefore"} : Insert(r, m, "st", null)
  \/ \E r \in Regions : Remove(r, "st", "none")

SpecPatch == Init /\ [][NextPatch]_vars

\* One install call, the external script nodes of app A (sandboxed) and app B (no
\* sandbox), their fetches, and app A's unmount / remount.
NextScript ==
  \/ Patch(DomInstalls)
  \/ \E k \in 1..DomInstalls : Unpatch(k)
  \/ \E r \in Regions, m \in {"appendChild", "insertBefore"}, n \in ExternalScripts :
        Insert(r, m, n, null)
  \/ \E r \in Regions, n \in ExternalScripts : Remove(r, n, "none")
  \/ FetchResolve
  \/ FetchReject
  \/ Unmount("A")
  \/ \E fresh \in BOOLEAN : Mount("A", fresh)

SpecScript == Init /\ [][NextScript]_vars

\* One install call and the typed and inline script nodes of app A (sandboxed), with the
\* fetches they start.
NextType ==
  \/ Patch(DomInstalls)
  \/ \E k \in 1..DomInstalls : Unpatch(k)
  \/ \E r \in Regions, m \in {"appendChild", "insertBefore"}, n \in TypedScripts :
        Insert(r, m, n, null)
  \/ \E r \in Regions, n \in TypedScripts : Remove(r, n, "none")
  \/ FetchResolve
  \/ FetchReject

SpecType == Init /\ [][NextType]_vars

\* One install call and its unpatch, a div of app A, a style node of the main app, and
\* a style node of app A that is redirected into A's container.
NextPass ==
  \/ Patch(DomInstalls)
  \/ \E k \in 1..DomInstalls : Unpatch(k)
  \/ \E r \in Regions, m \in {"appendChild", "insertBefore"}, n \in PlainNodes \cup {"st"},
        ref \in {"ms", "st", null} : Insert(r, m, n, ref)
  \/ \E r \in Regions, n \in PlainNodes \cup {"st"} : Remove(r, n, "none")

SpecPass == Init /\ [][NextPass]_vars

\* The style elements whose sheets are followed: the browser connects and disconnects
\* them, the app injects rules into the rule-only one, and the rule lists are recorded
\* and rebuilt.
NextSheet ==
  \/ \E n \in SheetNodes : AttachStyle(n)
  \/ \E n \in SheetNodes : DetachStyle(n)
  \/ \E ruleText \in RuleTexts : InjectRule("sc", ruleText)
  \/ \E l \in SheetLists : RecordStyledComponentsCSSRules(l)
  \/ \E l \in SheetLists : RebuildCSSRules(l)
  \/ \E appendSuccess \in BOOLEAN, connects \in BOOLEAN : ReAppendElement(appendSuccess, connects)
  \/ ReplayRule

SpecSheet == Init /\ [][NextSheet]_vars

\* One install call and its unpatch, the style and link node of app A, and the element
\* app A renders into its container, into which it may move its nodes.
NextNested ==
  \/ Patch(DomInstalls)
  \/ \E k \in 1..DomInstalls : Unpatch(k)
  \/ \E parent \in {"cA", "wA"}, n \in StyleNodes \cup Wrappers : AppAppend(parent, n)
  \/ \E r \in Regions, m \in {"appendChild", "insertBefore"}, n \in StyleNodes,
        ref \in StyleNodes \cup {null} : Insert(r, m, n, ref)
  \/ \E r \in Regions, n \in StyleNodes : Remove(r, n, "none")

SpecNested == Init /\ [][NextNested]_vars

\* Two apps side by side: one install call; app A puts its style node into the head and
\* app B its style node into the body; a script of app A and its fetch; the lifecycle
\* counters of both apps.
NextIso ==
  \/ Patch(DomInstalls)
  \/ \E m \in {"appendChild", "insertBefore"}, ref \in {"sb", null} : Insert("head", m, "st", ref)
  \/ Insert("body", "appendChild", "sb", null)
  \/ InsertFirst("head", "appendChild", "sx")
  \/ Remove("head", "st", "none")
  \/ Remove("body", "sb", "none")
  \/ FetchResolve
  \/ \E a \in Apps, t \in CalcTypes, s \in Phases : CalcAppCountLifecycle(a, t, s)

SpecIso == Init /\ [][NextIso]_vars

\* ================================================================== claims

\* ---- C1 ------------------------------------------------------------------
C1_NonNegative ==
  \A a \in DOMAIN appsCounterMap : \A p \in Phases : appsCounterMap[a][p] >= 0

C1_Step ==
  last'.op = "calc" =>
    LET a == last'.app
        p == last'.phase
        old == getAppCount(appsCounterMap, a)[p]
    IN /\ a \in DOMAIN appsCounterMap'
       /\ last'.calcType = "increase" => appsCounterMap'[a][p] = old + 1
       /\ last'.calcType = "decrease" /\ old > 0 => appsCounterMap'[a][p] = old - 1
       /\ last'.calcType = "decrease" /\ old = 0 => appsCounterMap'[a][p] = 0

\* C1: over every sequence of calcAppCount calls every counter of every tracked app
\* is >= 0 in every state; an increase adds exactly 1, a decrease subtracts exactly 1
\* from a counter > 0 and leaves a counter equal to 0 at 0.
C1_CounterFloor == []C1_NonNegative /\ [][C1_Step]_vars

\* A decrease has just been applied to a counter that was 0, and the counter is 0.
C1_Witness ==
  /\ last.op = "calc" /\ last.calcType = "decrease" /\ last.before = 0
  /\ appsCounterMap[last.app][last.phase] = 0

\* ---- C2 ------------------------------------------------------------------
\* C2: isAllAppsUnmounted() is true exactly when no (app, phase) has more increases
\* than effective decreases, that is when every counter of the call history is 0.
C2_AllIdleIff ==
  isAllAppsUnmounted(appsCounterMap) <=> \A a \in Apps : \A p \in Phases : expected[a][p] = 0

\* A counter has just been brought back from 1 to 0 and the registry is idle again.
C2_Witness ==
  /\ last.op = "calc" /\ last.calcType = "decrease" /\ last.before = 1
  /\ isAllAppsUnmounted(appsCounterMap)

\* ---- C3 ------------------------------------------------------------------
RECURSIVE Depth(_)
\* How many wrappers a call of function value f passes before it reaches a native method.
Depth(f) == IF f.kind = "native" THEN 0 ELSE 1 + Depth(RawOf(f))

WrappedSlots == InsertSlots \cup RemoveSlots

\* The last call was made on a slot that the install call wraps, for a hijackable node
\* of a micro-app.
C3_WrappedCall ==
  /\ last.op \in {"insert", "remove"}
  /\ SlotOf(last.region, last.method) \in WrappedSlots
  /\ isHijackingTag(Tag(last.node)) /\ isInvokedByMicroApp(last.node)

C3_Layer ==
  sinceUnpatch >= 1 =>
    /\ \A slot \in WrappedSlots : overwritten(proto[slot]) /\ Depth(proto[slot]) = 1
    /\ C3_WrappedCall => last.oracle = 1

C3_Step ==
  /\ (last'.op = "patch" /\ sinceUnpatch >= 1) => proto' = proto
  /\ (sinceUnpatch >= 1 /\ C3_WrappedCall' /\ last'.op = "insert") =>
        /\ registry'[Owner(last'.node)] = Append(registry[Owner(last'.node)], last'.node)
        /\ Has(children'[Container(Owner(last'.node))], last'.node)
        /\ ~last'.threw

AllNative == \A slot \in Slots : proto[slot] = Native(NativeMethod(slot))

\* C4: after n >= 1 install calls, one call of the unpatch function returned by any of
\* them leaves the five slots equal to the original implementations.
C4_UnpatchRestores == last.op = "unpatch" => AllNative

\* ---- C5 ------------------------------------------------------------------
\* The last call was an insert of a style or link node of a micro-app through a slot
\* that held an interception wrapper.
C5_Intercepted ==
  /\ last.op = "insert"
  /\ overwritten(proto[SlotOf(last.region, last.method)])
  /\ Tag(last.node) \in {STYLE_TAG_NAME, LINK_TAG_NAME}
  /\ isInvokedByMicroApp(last.node)

C5_Common ==
  /\ Has(children'[Container(Owner(last'.node))], last'.node)
  /\ ~Has(children'[last'.region], last'.node)
  /\ target'[last'.node] = last'.region
  /\ ~last'.threw /\ last'.ret = last'.node

Count(seq, x) == Cardinality({i \in 1..Len(seq) : seq[i] = x})

\* The last call was a remove of a style or link node of a micro-app through a slot that
\* held an interception wrapper, and no collaborator raised.
C6_InterceptedRemove ==
  /\ last.op = "remove" /\ last.fault = "none"
  /\ overwritten(proto[SlotOf(last.region, last.method)])
  /\ Tag(last.node) \in {STYLE_TAG_NAME, LINK_TAG_NAME}
  /\ isInvokedByMicroApp(last.node)

C6_State ==
  /\ \A a \in Apps : \A n \in StyleNodes : Count(registry[a], n) <= 1
  /\ C5_Intercepted => Count(registry[Owner(last.node)], last.node) = 1
  /\ C6_InterceptedRemove => Count(registry[Owner(last.node)], last.node) = 0

C6_Order ==
  /\ C5_Intercepted' =>
       registry'[Owner(last'.node)] =
         Append(Without(registry[Owner(last'.node)], last'.node), last'.node)
  /\ C6_InterceptedRemove' =>
       registry'[Owner(last'.node)] = Without(registry[Owner(last'.node)], last'.node)

\* C6: after any sequence of intercepted inserts and removes the registry of an app
\* holds each node at most once, holds a node exactly once right after an intercepted
\* insert of it and not at all after an intercepted remove of it, and keeps the
\* remaining nodes in the order of their insertion.
C6_RegistryExact == []C6_State /\ [][C6_Order]_vars

\* ---- C10 -----------------------------------------------------------------
\* C10: while patched, a remove call on head or body for a hijackable node owned by a
\* micro-app returns normally, whichever collaborator raises and wherever the node is.
C10_RemoveNeverThrows ==
  ( /\ last.op = "remove"
    /\ overwritten(proto[SlotOf(last.region, last.method)])
    /\ isHijackingTag(Tag(last.node))
    /\ isInvokedByMicroApp(last.node) ) => ~last.threw

\* ---- C7 ------------------------------------------------------------------
\* C7: when a fetch resolves for a script node that is no longer part of the live
\* document, no wrapped code is installed on the node (its src stays absent) and no
\* object URL is created.
C7_StaleFetchDiscarded ==
  [][(last'.op = "resolve" /\ ~InDocument(children, attached, last'.node)) =>
       /\ srcAttr'[last'.node] = NoURL
       /\ blobs' = blobs
       /\ installed' = installed]_vars

\* ---- C8 ------------------------------------------------------------------
\* C8: over every sequence of inserts, removes and fetch resolutions the wrapped code
\* is installed on a script node at most once, and no code is wrapped by
\* makeEvaluateFactory a second time.
C8_InstalledAtMostOnce ==
  /\ \A n \in ScriptNodes : installed[n] <= 1
  /\ \A i \in 1..Len(blobs) : Len(blobs[i].wraps) <= 1

\* ---- C9 ------------------------------------------------------------------
\* The last call was an insert of a script of a sandboxed app through a slot that held
\* an interception wrapper.
C9_Intercepted ==
  /\ last.op = "insert"
  /\ overwritten(proto[SlotOf(last.region, last.method)])
  /\ Tag(last.node) = SCRIPT_TAG_NAME
  /\ isInvokedByMicroApp(last.node) /\ HasSandbox(Owner(last.node))

C9_State ==
  \A n \in ScriptNodes :
    /\ (\E f \in pending : f.node = n) => srcAttr[n] = NoURL
    /\ (HasSandbox(Owner(n)) /\ dataSrc[n] # NoURL) =>
         /\ srcAttr[n].kind \in {"none", "blob"}
         /\ dataSrc[n].kind \in {"abs", "blob"}
         /\ srcAttr[n].kind = "blob" =>
              blobs[srcAttr[n].n] = makeEvaluateFactory(FetchText(dataSrc[n]), dataSrc[n])

C9_Step ==
  /\ (C9_Intercepted' /\ srcAttr[last'.node] # NoURL) =>
        /\ srcAttr'[last'.node] = NoURL
        /\ dataSrc'[last'.node] = getEntireUrl(srcAttr[last'.node], baseURI)
        /\ \E f \in pending' : f.node = last'.node /\ f.url = dataSrc'[last'.node]
        /\ Has(children'[Container(Owner(last'.node))], last'.node)
        /\ ~last'.threw /\ last'.ret = last'.node
  /\ last'.op = "resolve" =>
        /\ srcAttr'[last'.node].kind = "blob"
        /\ blobs'[srcAttr'[last'.node].n] =
             makeEvaluateFactory(FetchText(last'.url), last'.url)
        /\ last'.url = dataSrc[last'.node]

\* C9: when the intercepted insert of an external script of a sandboxed app returns, the
\* src attribute is removed, dataset.src holds the absolute URL resolved from it, a fetch
\* of that URL is under way and the node sits in the app's container; while the fetch is
\* pending the node has no src; once it resolves the src is an object URL of
\* makeEvaluateFactory(fetched code, resolved URL), never the raw URL or the raw text.
C9_ExternalScript == []C9_State /\ [][C9_Step]_vars

\* The fetch started by an intercepted insert of app A's script has resolved and the
\* node, still in A's container, now refers to the wrapped code.
C9_Witness ==
  /\ last.op = "resolve" /\ last.node = "sx" /\ last.url = AbsURL("a.js")
  /\ srcAttr["sx"].kind = "blob"
  /\ Has(children["cA"], "sx")

\* ---- C11 -----------------------------------------------------------------
\* The last call was an insert of a script of a sandboxed app through a slot that held
\* an interception wrapper, so that the script pipeline ran with a sandbox.
C11_Piped ==
  /\ last.op = "insert"
  /\ overwritten(proto[SlotOf(last.region, last.method)])
  /\ Tag(last.node) = SCRIPT_TAG_NAME
  /\ isInvokedByMicroApp(last.node) /\ HasSandbox(Owner(last.node))

\* A script of a non-executable declared type comes out of the pipeline as it went in.
C11_NonExecutable ==
  (C11_Piped' /\ ~isValidJavaScriptType(ScriptType(last'.node))) =>
     /\ srcAttr'[last'.node] = srcAttr[last'.node]
     /\ dataSrc'[last'.node] = dataSrc[last'.node]
     /\ text'[last'.node] = text[last'.node]
     /\ pending' = pending

\* An inline script of an executable or absent type has its text wrapped on return.
C11_InlineExecutable ==
  ( /\ C11_Piped' /\ isValidJavaScriptType(ScriptType(last'.node))
    /\ srcAttr[last'.node] = NoURL /\ text[last'.node] # NoCode ) =>
     /\ text'[last'.node] = makeEvaluateFactory(text[last'.node], baseURI)
     /\ srcAttr'[last'.node] = NoURL /\ pending' = pending

C11_InlineExecutableOnly == [][C11_InlineExecutable]_vars

\* C11: with a sandbox, a script whose declared type is not an executable one is never
\* transformed, inline or with a src attribute (src and text unchanged, no fetch started);
\* an inline script of an executable or absent type with non-empty text has its text
\* replaced by makeEvaluateFactory(text, baseURL) before the insert returns.
C11_TypeRespected == [][C11_NonExecutable /\ C11_InlineExecutable]_vars

\* ---- C12 -----------------------------------------------------------------
\* The last call was an insert or remove, through a slot that held an interception
\* wrapper, of a node that is not a script, style or link, or that no micro-app owns.
C12_PassedThrough ==
  /\ last.op \in {"insert", "remove"}
  /\ overwritten(proto[SlotOf(last.region, last.method)])
  /\ \/ Tag(last.node) \notin {SCRIPT_TAG_NAME, STYLE_TAG_NAME, LINK_TAG_NAME}
     \/ ~isInvokedByMicroApp(last.node)

\* What the original operation of the last call produces from the state before it.
C12_Original ==
  IF last'.op = "insert"
  THEN CallInsert(Native(last'.method), last'.region, last'.node, last'.ref, CallState)
  ELSE CallRemove(Native("removeChild"), last'.region, last'.node, "none", CallState)

\* C12: while patched, an insert or remove on head or body of a node whose tag is not
\* script/style/link, or that is not attributed to a micro-app, leaves the document
\* structure, the return value (or the error raised) and every registry exactly as the
\* unpatched original operation does from the same state.
C12_PassThroughRefines ==
  [][C12_PassedThrough' =>
       /\ children' = C12_Original.children
       /\ last'.ret = C12_Original.ret
       /\ last'.threw = C12_Original.threw
       /\ registry' = registry
       /\ target' = target]_vars

\* Through a wrapper, a div of app A was inserted into the head before the main app's
\* style node and is a child of the head, not of A's container.
C12_Witness ==
  /\ C12_PassedThrough /\ last.op = "insert" /\ last.node = "dv" /\ last.ref = "ms"
  /\ last.region = "head" /\ ~last.threw
  /\ Has(children["head"], "dv") /\ ~Has(children["cA"], "dv")

\* ---- C13 -----------------------------------------------------------------
\* The replay loop of the element under rebuild has just ended, and it had started on a
\* new, empty sheet: the element was captured, detached and attached again.
C13_ReplayedOnFreshSheet ==
  /\ rebuild.stage = "loop" /\ rebuild.fresh
  /\ rebuild'.stage # "loop" \/ rebuild'.k # rebuild.k

\* C13: for a rule-only style node with N injected rules, capture, detach (the sheet is
\* discarded), reattach and replay leave the node's live rule list equal to the N
\* captured rules in their original order.
C13_RoundTrip ==
  [][C13_ReplayedOnFreshSheet =>
       LET n == rebuild.list[rebuild.k]
       IN /\ ~last'.threw
          /\ sheets'[sheet'[n]] = sheets[styledComponentCSSRulesMap[n]]
          /\ sheets'[styledComponentCSSRulesMap'[n]] = sheets[styledComponentCSSRulesMap[n]]]_vars

\* The rebuild of "sc" has returned: its new sheet holds the two captured rules r2, r1 in
\* that order, put there by the replay alone.
C13_Witness ==
  /\ last.op = "rebuilt" /\ last.node = "sc" /\ rebuild.stage = "idle"
  /\ sheet["sc"] # 0 /\ styledComponentCSSRulesMap["sc"] # 0
  /\ sheet["sc"] # styledComponentCSSRulesMap["sc"]
  /\ sheet["sc"] \notin appRules
  /\ sheets[styledComponentCSSRulesMap["sc"]] = <<"r2", "r1">>
  /\ sheets[sheet["sc"]] = <<"r2", "r1">>

\* ---- C14 -----------------------------------------------------------------
\* C14: replaying a preserved rule list twice on the same reattached style node does not
\* duplicate the rules: between rebuildCSSRules calls, a sheet other than the captured
\* one, into which the app itself injected nothing, holds no more rules than the
\* captured list.
C14_NoDuplicates ==
  \A n \in SheetNodes :
    ( /\ rebuild.stage = "idle"
      /\ styledComponentCSSRulesMap[n] # 0 /\ sheet[n] # 0
      /\ sheet[n] # styledComponentCSSRulesMap[n]
      /\ sheet[n] \notin appRules ) =>
       Len(sheets[sheet[n]]) <= Len(sheets[styledComponentCSSRulesMap[n]])

\* ---- C19 -----------------------------------------------------------------
\* C19: the replay loop of rebuildCSSRules terminates: every iteration that is followed
\* by another one leaves fewer iterations to go (cssRules.length - i decreases), also
\* when the preserved list is the live list of the node's current sheet.
C19_ReplayTerminates ==
  [][(rebuild.stage = "loop" /\ rebuild'.stage = "loop" /\ rebuild'.k = rebuild.k) =>
       LET cssRules == styledComponentCSSRulesMap[rebuild.list[rebuild.k]]
       IN Len(sheets'[cssRules]) - rebuild'.i < Len(sheets[cssRules]) - rebuild.i]_vars

\* ---- C15 -----------------------------------------------------------------
\* C15: while patched (an install call was made and no unpatch since), an insert of a
\* hijackable micro-app node through head.appendChild, head.insertBefore,
\* body.appendChild or body.insertBefore puts the node into the owning app's container
\* and not into the shared region.
C15_BothVariantsBothRegions ==
  ( /\ last.op = "insert" /\ sinceUnpatch >= 1
    /\ isHijackingTag(Tag(last.node)) /\ isInvokedByMicroApp(last.node) ) =>
     /\ Has(children[Container(Owner(last.node))], last.node)
     /\ ~Has(children[last.region], last.node)

\* ---- C16 -----------------------------------------------------------------
\* The last call was a remove of a hijackable node of a micro-app through a slot that
\* held an interception wrapper, and no collaborator raised.
C16_Intercepted ==
  /\ last.op = "remove" /\ last.fault = "none"
  /\ overwritten(proto[SlotOf(last.region, last.method)])
  /\ isHijackingTag(Tag(last.node)) /\ isInvokedByMicroApp(last.node)

\* x is inside container c: a child of c or of an element that is a child of c.
C16_Inside(ch, c, x) ==
  \E e \in Elements : Has(ch[e], x) /\ (e = c \/ Has(ch[c], e))

\* What the original remove on the original target produces from the state before it.
C16_Original ==
  CallRemove(Native("removeChild"), last'.region, last'.node, "none", CallState)

\* The node is removed from its actual parent, and the shared region is left as it is,
\* exactly when the app's container contains it; otherwise nothing is removed from the
\* container and the outcome is that of the original remove on the original target.
C16_Structure ==
  LET n == last'.node
      c == Container(Owner(n))
  IN IF C16_Inside(children, c, n)
     THEN /\ children' = Detach(children, n)
          /\ children'[last'.region] = children[last'.region]
          /\ ~last'.threw /\ last'.ret = n
     ELSE /\ children'[c] = children[c]
          /\ children' = C16_Original.children
          /\ last'.threw = C16_Original.threw
          /\ last'.ret = C16_Original.ret

C16_StructureOnly == [][C16_Intercepted' => C16_Structure]_vars

\* C16: on an intercepted remove of a hijackable micro-app node (no placeholder exists,
\* the artifact is the node), the node is removed from its actual parent, not from the
\* shared region, if and only if the app's container contains it; when the container
\* does not contain it, nothing is removed from the container and the removal is
\* delegated to the original remove on the original target; a style/link node is
\* removed from the app's registry in either case.
C16_RemoveFromActualParent ==
  [][C16_Intercepted' =>
       /\ C16_Structure
       /\ Tag(last'.node) \in {STYLE_TAG_NAME, LINK_TAG_NAME} =>
            ~Has(registry'[Owner(last'.node)], last'.node)]_vars

\* ---- C17 -----------------------------------------------------------------
\* The last call was an insertBefore of a hijackable node of a micro-app, before a
\* reference other than the node itself, through a slot that held an interception wrapper.
C17_Intercepted ==
  /\ last.op = "insert" /\ last.method = "insertBefore"
  /\ overwritten(proto[SlotOf(last.region, last.method)])
  /\ isHijackingTag(Tag(last.node)) /\ isInvokedByMicroApp(last.node)
  /\ last.ref # last.node

\* n sits immediately before ref among the children of some element.
C17_RightBefore(ch, n, ref) ==
  \E e \in Elements : \E i \in 1..(Len(ch[e]) - 1) : ch[e][i] = n /\ ch[e][i + 1] = ref

\* C17: an intercepted insert-before places the node inside the app's container
\* immediately before the reference node when the reference is a descendant of the
\* container, and as the last child of the container when the reference is null or not
\* inside the container; the call raises no error in either case.
C17_ReferenceRespected ==
  [][C17_Intercepted' =>
       LET n == last'.node
           c == Container(Owner(n))
       IN /\ ~last'.threw
          /\ IF last'.ref # null /\ C16_Inside(children, c, last'.ref)
             THEN C16_Inside(children', c, n) /\ C17_RightBefore(children', n, last'.ref)
             ELSE children'[c] # <<>> /\ children'[c][Len(children'[c])] = n]_vars

\* ---- C18 -----------------------------------------------------------------
\* C18: once the slots hold the original implementations again, a call of any unpatch
\* function returned earlier leaves them so: the wrappers come back only with the next
\* install call.
C18_UnpatchedIsStable ==
  [][(AllNative /\ last'.op = "unpatch") => AllNative']_vars

\* ---- C20 -----------------------------------------------------------------
\* The last call was an insert or remove of a hijackable node of a micro-app through a
\* slot that held an interception wrapper.
C20_Intercepted ==
  /\ last.op \in {"insert", "remove"}
  /\ overwritten(proto[SlotOf(last.region, last.method)])
  /\ isHijackingTag(Tag(last.node)) /\ isInvokedByMicroApp(last.node)

C20_DocumentFrame ==
  C20_Intercepted' =>
    \A b \in Apps \ {Owner(last'.node)} :
      /\ registry'[b] = registry[b]
      /\ children'[Container(b)] = children[Container(b)]

C20_CounterFrame ==
  last'.op = "calc" =>
    /\ \A b \in Apps \ {last'.app} :
         /\ getAppCount(appsCounterMap', b) = getAppCount(appsCounterMap, b)
         /\ b \in DOMAIN appsCounterMap' <=> b \in DOMAIN appsCounterMap
    /\ \A p \in Phases \ {last'.phase} :
         getAppCount(appsCounterMap', last'.app)[p] = getAppCount(appsCounterMap, last'.app)[p]

\* C20: with two micro-apps, an intercepted insert or remove of a node of one app, in any
\* interleaving with the other app's operations and with script fetches under way, leaves
\* the other app's dynamicStyleSheetElements and the children of its container as they
\* are; calcAppCount for one app leaves the other app's counters, and the same app's
\* counter of the other phase, as they are.
C20_PerAppIsolation == [][C20_DocumentFrame /\ C20_CounterFrame]_vars

\* An insert of app B's style node has just been intercepted while app A holds its style
\* node in its container and registry, a fetch for A's script is under way, and A is
\* counted as mounting but not as bootstrapping.
C20_Witness ==
  /\ C20_Intercepted /\ last.op = "insert" /\ last.node = "sb"
  /\ children["cB"] = <<"sb">> /\ registry["B"] = <<"sb">>
  /\ Has(children["cA"], "st") /\ registry["A"] = <<"st">>
  /\ pending # {}
  /\ "A" \in DOMAIN appsCounterMap
  /\ appsCounterMap["A"].mounting = 1 /\ appsCounterMap["A"].bootstrapping = 0

====
